---- MODULE Spec2Model ----
(***************************************************************************)
(* Verification model of the claude-drive coordination substrate:          *)
(*   scripts/board.py     file-per-task board (add/list/claim/complete/    *)
(*                        fail/archive)                                    *)
(*   scripts/lock.py      per-task lock files with heartbeats              *)
(*   scripts/dashboard.py administrative actions (reopen/delete/cleanup)   *)
(* A directory is a function whose DOMAIN is the set of files present.     *)
(***************************************************************************)
EXTENDS Integers, Sequences, FiniteSets, TLC

\* ------------------------------------------------------------------ bounds
MaxTime == 1
MaxRestartCount == 4      \* operator restarts stop counting here
MaxClock == 3             \* the monotonic clock of a log stream stops here
MaxLines == 6             \* log lines the runtime emits on one stream
LineLimit == 2            \* lines forwarded per second: the 500 of agent_logs_ws, scaled down

\* ------------------------------------------------------------ input sets
IdOrder    == <<"t1", "t2">>          \* the task ids, ascending
TaskIds    == {IdOrder[i] : i \in 1..Len(IdOrder)}
Agents     == {"a1", "a2"}
Priorities == {1, 2}
Reasons    == {"r1"}

\* ------------------------------------------------------------------- time
\* The clock advances in ticks of eight days; every timestamp is a tick count.
DaySeconds  == 86400
TickSeconds == 8 * DaySeconds
DefaultMaxAge      == 7200     \* cleanup_stale's default max_age_seconds
DefaultArchiveDays == 7        \* archive_done's default older_than_days
MaxAges     == {DefaultMaxAge, TickSeconds, 10 * DaySeconds}   \* cleanup_stale(max_age_seconds) arguments
ArchiveAges == {DefaultArchiveDays, 8, 10}        \* archive_done(older_than_days) arguments

\* Python None for an agent id / a reason / a timestamp / a task id
NoAgent  == "None"
NoReason == "None"
NoTime   == -1
NoId     == "None"

VARIABLES
    tasks,      \* tasks directory:   id -> task record
    archive,    \* archive directory: id -> task record
    locks,      \* locks directory:   id -> lock record
    now,        \* wall clock
    last,       \* the last call made and what it returned
    completions,\* history: successful complete/fail calls per task since it was last claimed
    pc,         \* per agent process: where it stands
    cur,        \* per agent process: the task id it works on
    snap,       \* per agent process: the task record its claim_task read
    holders,    \* history: per task id, the agents acquire_lock returned True to
                \*          since the lock file was last removed
    claimLog,   \* history: per task id, the agents claim_task returned it to
    reaper,     \* a cleanup_stale call in progress: its locals
    messages,   \* messages directory: id -> message record
    fleet,      \* _fleet_state: agent id -> fleet entry
    sup,        \* the supervisor's coroutines: _fleet_lock and where each handler stands
    stream      \* one log websocket: its handler, its child process, what it sent

vars == <<tasks, archive, locks, now, last, completions, pc, cur, snap, holders, claimLog,
          reaper, messages, fleet, sup, stream>>

procVars == <<pc, cur, snap, holders, claimLog>>

auxVars == <<reaper, messages, fleet, sup, stream>>

\* ------------------------------------------------------------- directories
Remove(dir, id) == [x \in (DOMAIN dir) \ {id} |-> dir[x]]

PutAlone(dir, id, rec) == [x \in {id} |-> rec]

Put(dir, id, rec) == [x \in (DOMAIN dir) \cup {id} |-> IF x = id THEN rec ELSE dir[x]]

\* Path.glob("*.json") yields the files in an order the file system chooses.
Orders(S) == {s \in [1..Cardinality(S) -> S] : \A i, j \in 1..Cardinality(S) : s[i] = s[j] => i = j}

\* ------------------------------------------------------------------- board
NewTask(id, priority) ==
    [id |-> id, status |-> "open", locked_by |-> NoAgent, priority |-> priority,
     completed_at |-> NoTime, heartbeat |-> NoTime, reason |-> NoReason]

\* an agent that holds no record read by claim_task
NoSnap == NewTask(NoId, 0)

FilterMatchesAny(task, status_filter) == TRUE

FilterMatches(task, status_filter) == status_filter = "None" \/ task.status = status_filter

RECURSIVE ListTasksFrom(_, _, _, _)
ListTasksFrom(dir, order, i, status_filter) ==
    IF i > Len(order) THEN <<>>
    ELSE (IF FilterMatches(dir[order[i]], status_filter) THEN <<dir[order[i]]>> ELSE <<>>)
         \o ListTasksFrom(dir, order, i + 1, status_filter)

ListTasks(dir, order, status_filter) == ListTasksFrom(dir, order, 1, status_filter)

SortNone(seq) == seq

\* list.sort(key=priority, reverse=True): stable, so equal priorities keep list order.
RECURSIVE InsertDesc(_, _)
InsertDesc(sorted, x) ==
    IF sorted = <<>> THEN <<x>>
    ELSE IF Head(sorted).priority >= x.priority
         THEN <<Head(sorted)>> \o InsertDesc(Tail(sorted), x)
         ELSE <<x>> \o sorted

RECURSIVE SortByPriorityDesc(_)
SortByPriorityDesc(seq) ==
    IF seq = <<>> THEN <<>>
    ELSE InsertDesc(SortByPriorityDesc(SubSeq(seq, 1, Len(seq) - 1)), seq[Len(seq)])

LockedNoOwner(task, agent_id) == [task EXCEPT !.status = "locked", !.heartbeat = now]

Locked(task, agent_id) ==
    [task EXCEPT !.status = "locked", !.locked_by = agent_id, !.heartbeat = now]

VerifyOwnerStatusBlind(task, task_id, agent_id) == task.locked_by = agent_id

VerifyOwnerAnyAgent(task, task_id, agent_id) == task.status = "locked"

\* True when _verify_owner returns normally, FALSE when it raises PermissionError.
VerifyOwner(task, task_id, agent_id) == task.status = "locked" /\ task.locked_by = agent_id

DoneKeepsStatus(task) == [task EXCEPT !.completed_at = now]

Done(task) == [task EXCEPT !.status = "done", !.completed_at = now]

FailedNoTime(task, reason) == [task EXCEPT !.status = "failed", !.reason = reason]

Failed(task, reason) ==
    [task EXCEPT !.status = "failed", !.completed_at = now, !.reason = reason]

\* What a call leaves for the caller to see: its arguments and its result.
Call(op, id, agent, result) ==
    [op |-> op, id |-> id, agent |-> agent, result |-> result, cleaned |-> {}, reason |-> NoReason,
     arg |-> 0]

IdRank(id) == CHOOSE i \in 1..Len(IdOrder) : IdOrder[i] = id

FreshIds == TaskIds \ (DOMAIN tasks \cup DOMAIN archive \cup DOMAIN locks)

\* claim_task up to the choice: open_tasks sorted, in the directory order given
OpenTasks(dir, order) == SortByPriorityDesc(ListTasks(dir, order, "open"))

AddTask ==
    \E id \in FreshIds, p \in Priorities :
        /\ tasks' = Put(tasks, id, NewTask(id, p))
        /\ completions' = [completions EXCEPT ![id] = 0]
        /\ last' = Call("add", id, NoAgent, "ok")
        /\ UNCHANGED <<archive, locks, now, procVars, auxVars>>

\* claim_task as one step; the frame is the caller's
ClaimTaskBy(agent_id) ==
    \E order \in Orders(DOMAIN tasks) :
        LET open_tasks == OpenTasks(tasks, order) IN
        IF open_tasks = <<>>
        THEN /\ last' = Call("claim", NoId, agent_id, "none")
             /\ UNCHANGED <<tasks, completions>>
        ELSE LET chosen == Head(open_tasks) IN
             /\ tasks' = Put(tasks, chosen.id, Locked(chosen, agent_id))
             /\ completions' = [completions EXCEPT ![chosen.id] = 0]
             /\ last' = Call("claim", chosen.id, agent_id, "ok")

ClaimTask ==
    \E agent_id \in Agents :
        /\ ClaimTaskBy(agent_id)
        /\ UNCHANGED <<archive, locks, now, procVars, auxVars>>

\* complete_task as one step; the frame is the caller's
CompleteTaskBy(id, agent_id) ==
    IF id \notin DOMAIN tasks
    THEN /\ last' = Call("complete", id, agent_id, "not-found")
         /\ UNCHANGED <<tasks, completions>>
    ELSE IF ~VerifyOwner(tasks[id], id, agent_id)
    THEN /\ last' = Call("complete", id, agent_id, "not-owner")
         /\ UNCHANGED <<tasks, completions>>
    ELSE /\ tasks' = Put(tasks, id, Done(tasks[id]))
         /\ completions' = [completions EXCEPT ![id] = @ + 1]
         /\ last' = Call("complete", id, agent_id, "ok")

CompleteTask ==
    \E id \in TaskIds, agent_id \in Agents :
        /\ CompleteTaskBy(id, agent_id)
        /\ UNCHANGED <<archive, locks, now, procVars, auxVars>>

FailTask ==
    \E id \in TaskIds, agent_id \in Agents, reason \in Reasons :
        IF id \notin DOMAIN tasks
        THEN /\ last' = Call("fail", id, agent_id, "not-found")
             /\ UNCHANGED <<tasks, completions, archive, locks, now, procVars, auxVars>>
        ELSE IF ~VerifyOwner(tasks[id], id, agent_id)
        THEN /\ last' = Call("fail", id, agent_id, "not-owner")
             /\ UNCHANGED <<tasks, completions, archive, locks, now, procVars, auxVars>>
        ELSE /\ tasks' = Put(tasks, id, Failed(tasks[id], reason))
             /\ completions' = [completions EXCEPT ![id] = @ + 1]
             /\ last' = [Call("fail", id, agent_id, "ok") EXCEPT !.reason = reason]
             /\ UNCHANGED <<archive, locks, now, procVars, auxVars>>

\* archive_done: the records shutil.move takes out of the tasks directory.
ArchivableAtLeast(task, older_than_days) ==
    /\ task.status \in {"done", "failed"}
    /\ task.completed_at # NoTime
    /\ task.completed_at * TickSeconds <= now * TickSeconds - older_than_days * DaySeconds

Archivable(task, older_than_days) ==
    /\ task.status \in {"done", "failed"}
    /\ task.completed_at # NoTime
    /\ task.completed_at * TickSeconds < now * TickSeconds - older_than_days * DaySeconds

ArchiveDone ==
    \E older_than_days \in ArchiveAges :
        LET moved == {id \in DOMAIN tasks : Archivable(tasks[id], older_than_days)} IN
        /\ tasks' = [id \in (DOMAIN tasks) \ moved |-> tasks[id]]
        /\ archive' = [id \in (DOMAIN archive) \cup moved |->
                          IF id \in moved THEN tasks[id] ELSE archive[id]]
        /\ last' = [Call("archive", NoId, NoAgent, "ok") EXCEPT !.cleaned = moved,
                                                                 !.arg = older_than_days]
        /\ UNCHANGED <<completions, locks, now, procVars, auxVars>>

\* -------------------------------------------------------------------- locks
NewLock(task_id, agent_id) ==
    [agent_id |-> agent_id, task_id |-> task_id, acquired_at |-> now, last_heartbeat |-> now]

\* acquire_lock goes on to write the file unless lock_file.exists()
MayCreate(dir, task_id) == task_id \notin DOMAIN dir

OwnedByAnyone(dir, task_id, agent_id) == task_id \in DOMAIN dir

OwnedBy(dir, task_id, agent_id) == task_id \in DOMAIN dir /\ dir[task_id].agent_id = agent_id

RefreshedAcquired(lk) == [lk EXCEPT !.last_heartbeat = now, !.acquired_at = now]

Refreshed(lk) == [lk EXCEPT !.last_heartbeat = now]

StaleAtLeast(lk, max_age_seconds) == (now - lk.last_heartbeat) * TickSeconds >= max_age_seconds

Stale(lk, max_age_seconds) == (now - lk.last_heartbeat) * TickSeconds > max_age_seconds

\* A lock epoch of the ids in S ends: their lock files are gone.
EpochEnd(S) == [id \in TaskIds |-> IF id \in S THEN {} ELSE holders[id]]

\* acquire_lock, first step: lock_file.exists(); returns False, or goes on to the write
AcquireCheck(agent_id, task_id, onFalse) ==
    IF ~MayCreate(locks, task_id)
    THEN /\ pc' = [pc EXCEPT ![agent_id] = onFalse]
         /\ cur' = [cur EXCEPT ![agent_id] = IF onFalse = "idle" THEN NoId ELSE task_id]
         /\ last' = Call("acquire", task_id, agent_id, "false")
    ELSE /\ pc' = [pc EXCEPT ![agent_id] = "acquire_write"]
         /\ cur' = [cur EXCEPT ![agent_id] = task_id]
         /\ last' = Call("acquire_check", task_id, agent_id, "absent")

\* acquire_lock, second step: lock_file.write_text(...); return True
AcquireWrite(agent_id, onTrue) ==
    /\ pc[agent_id] = "acquire_write"
    /\ locks' = Put(locks, cur[agent_id], NewLock(cur[agent_id], agent_id))
    /\ holders' = [holders EXCEPT ![cur[agent_id]] = @ \cup {agent_id}]
    /\ pc' = [pc EXCEPT ![agent_id] = onTrue]
    /\ cur' = [cur EXCEPT ![agent_id] = IF onTrue = "idle" THEN NoId ELSE @]
    /\ last' = Call("acquire", cur[agent_id], agent_id, "true")

\* release_lock as one step; the frame is the caller's
ReleaseLockBy(task_id, agent_id) ==
    IF ~OwnedBy(locks, task_id, agent_id)
    THEN /\ last' = Call("release", task_id, agent_id, "false")
         /\ UNCHANGED <<locks, holders>>
    ELSE /\ locks' = Remove(locks, task_id)
         /\ holders' = EpochEnd({task_id})
         /\ last' = Call("release", task_id, agent_id, "true")

\* refresh_lock as one step; the frame is the caller's
RefreshLockBy(task_id, agent_id) ==
    IF ~OwnedBy(locks, task_id, agent_id)
    THEN /\ last' = Call("refresh", task_id, agent_id, "false")
         /\ UNCHANGED locks
    ELSE /\ locks' = Put(locks, task_id, Refreshed(locks[task_id]))
         /\ last' = Call("refresh", task_id, agent_id, "true")

\* refresh_lock, first step: _read_lock and the owner test; returns False, or
\* goes on to the write with the data it read
RefreshRead ==
    \E task_id \in TaskIds, agent_id \in Agents :
        /\ pc[agent_id] = "idle"
        /\ IF ~OwnedBy(locks, task_id, agent_id)
           THEN /\ last' = Call("refresh", task_id, agent_id, "false")
                /\ UNCHANGED <<pc, cur, snap>>
           ELSE /\ pc' = [pc EXCEPT ![agent_id] = "refresh_write"]
                /\ cur' = [cur EXCEPT ![agent_id] = task_id]
                /\ snap' = [snap EXCEPT ![agent_id] = locks[task_id]]
                /\ last' = Call("refresh_read", task_id, agent_id, "owned")
        /\ UNCHANGED <<tasks, completions, archive, locks, now, holders, claimLog, auxVars>>

\* refresh_lock, second step: lock_file.write_text(data) with the new
\* heartbeat; return True
RefreshWrite ==
    \E agent_id \in Agents :
        /\ pc[agent_id] = "refresh_write"
        /\ locks' = Put(locks, cur[agent_id], Refreshed(snap[agent_id]))
        /\ pc' = [pc EXCEPT ![agent_id] = "idle"]
        /\ cur' = [cur EXCEPT ![agent_id] = NoId]
        /\ snap' = [snap EXCEPT ![agent_id] = NoSnap]
        /\ last' = Call("refresh", cur[agent_id], agent_id, "true")
        /\ UNCHANGED <<tasks, completions, archive, now, holders, claimLog, auxVars>>

CleanupStaleWith(max_age_seconds) ==
    LET cleaned == {id \in DOMAIN locks : Stale(locks[id], max_age_seconds)} IN
    /\ locks' = [id \in (DOMAIN locks) \ cleaned |-> locks[id]]
    /\ holders' = EpochEnd(cleaned)
    /\ last' = [Call("cleanup_stale", NoId, NoAgent, "ok") EXCEPT
                   !.cleaned = {locks[id].task_id : id \in cleaned}, !.arg = max_age_seconds]
    /\ UNCHANGED <<tasks, completions, archive, now, pc, cur, snap, claimLog, auxVars>>

CleanupStale == \E max_age_seconds \in MaxAges : CleanupStaleWith(max_age_seconds)

\* cleanup_stale step by step: `now` is taken once, the glob lists the lock
\* files, and each file is read, judged and unlinked in turn while other
\* processes go on using the lock store.
NoLock == [agent_id |-> NoAgent, task_id |-> NoId, acquired_at |-> NoTime, last_heartbeat |-> NoTime]

NoReaper ==
    [pc |-> "idle", now |-> NoTime, max_age_seconds |-> 0, todo |-> {}, file |-> NoId,
     data |-> NoLock, cleaned |-> {}]

\* age_seconds = (now - heartbeat).total_seconds(), with the `now` the call took at its start
AgeSeconds(data, t) == (t - data.last_heartbeat) * TickSeconds

ReaperFrame ==
    UNCHANGED <<tasks, completions, archive, now, pc, cur, snap, claimLog, messages, fleet, sup, stream>>

ReaperBegin ==
    \E max_age_seconds \in MaxAges :
        /\ reaper.pc = "idle"
        /\ reaper' = [NoReaper EXCEPT !.pc = "scan", !.now = now,
                          !.max_age_seconds = max_age_seconds, !.todo = DOMAIN locks]
        /\ last' = [Call("cleanup_begin", NoId, NoAgent, "ok") EXCEPT !.arg = max_age_seconds]
        /\ UNCHANGED <<locks, holders>>
        /\ ReaperFrame

\* the loop takes the next lock file: _read_lock, then the age test
ReaperRead ==
    \E id \in reaper.todo :
        /\ reaper.pc = "scan"
        /\ reaper' =
              IF id \in DOMAIN locks /\ AgeSeconds(locks[id], reaper.now) > reaper.max_age_seconds
              THEN [reaper EXCEPT !.pc = "unlink", !.todo = @ \ {id}, !.file = id, !.data = locks[id]]
              ELSE [reaper EXCEPT !.todo = @ \ {id}]
        /\ last' = [Call("cleanup_read", id, NoAgent,
                         IF id \in DOMAIN locks THEN "read" ELSE "none") EXCEPT
                       !.arg = reaper.max_age_seconds]
        /\ UNCHANGED <<locks, holders>>
        /\ ReaperFrame

\* lock_file.unlink(); cleaned.append(data["task_id"]). The unlink raises
\* FileNotFoundError when the file has gone since it was read.
ReaperUnlink ==
    /\ reaper.pc = "unlink"
    /\ IF reaper.file \in DOMAIN locks
       THEN /\ locks' = Remove(locks, reaper.file)
            /\ holders' = EpochEnd({reaper.file})
            /\ reaper' = [reaper EXCEPT !.pc = "scan", !.file = NoId, !.data = NoLock,
                                        !.cleaned = @ \cup {reaper.data.task_id}]
            /\ last' = [Call("cleanup_unlink", reaper.file, reaper.data.agent_id, "ok") EXCEPT
                           !.arg = reaper.max_age_seconds]
       ELSE /\ reaper' = NoReaper
            /\ last' = [Call("cleanup_stale", NoId, NoAgent, "raised") EXCEPT
                           !.arg = reaper.max_age_seconds]
            /\ UNCHANGED <<locks, holders>>
    /\ ReaperFrame

ReaperReturn ==
    /\ reaper.pc = "scan"
    /\ reaper.todo = {}
    /\ reaper' = NoReaper
    /\ last' = [Call("cleanup_stale", NoId, NoAgent, "ok") EXCEPT
                   !.cleaned = reaper.cleaned, !.arg = reaper.max_age_seconds]
    /\ UNCHANGED <<locks, holders>>
    /\ ReaperFrame

\* ---------------------------------------------------------------- dashboard
ReopenedKeepOwner(task) ==
    [task EXCEPT !.status = "open", !.heartbeat = NoTime, !.completed_at = NoTime]

Reopened(task) ==
    [task EXCEPT !.status = "open", !.locked_by = NoAgent, !.heartbeat = NoTime,
                 !.completed_at = NoTime]

ReopenTask ==
    \E task_id \in TaskIds :
        /\ IF task_id \in DOMAIN tasks
           THEN /\ tasks' = Put(tasks, task_id, Reopened(tasks[task_id]))
                /\ locks' = Remove(locks, task_id)
                /\ holders' = EpochEnd({task_id})
           ELSE UNCHANGED <<tasks, locks, holders>>
        /\ last' = Call("reopen", task_id, NoAgent, "ok")
        /\ UNCHANGED <<completions, archive, now, pc, cur, snap, claimLog, auxVars>>

\* POST /locks/cleanup: cleanup_stale with its default max age
CleanupLocks == CleanupStaleWith(DefaultMaxAge)

DeleteTaskKeepLock ==
    \E task_id \in TaskIds :
        /\ tasks' = Remove(tasks, task_id)
        /\ last' = [Call("delete", task_id, NoAgent, "ok") EXCEPT
                       !.cleaned = {"task"} \cap {IF task_id \in DOMAIN tasks THEN "task" ELSE ""}]
        /\ UNCHANGED <<locks, holders, completions, archive, now, pc, cur, snap, claimLog, auxVars>>

\* last.cleaned tells which of the two files the handler unlinked
DeleteTask ==
    \E task_id \in TaskIds :
        /\ tasks' = Remove(tasks, task_id)
        /\ locks' = Remove(locks, task_id)
        /\ holders' = EpochEnd({task_id})
        /\ last' = [Call("delete", task_id, NoAgent, "ok") EXCEPT
                       !.cleaned = {"task", "lock"} \cap
                                   {IF task_id \in DOMAIN tasks THEN "task" ELSE "",
                                    IF task_id \in DOMAIN locks THEN "lock" ELSE ""}]
        /\ UNCHANGED <<completions, archive, now, pc, cur, snap, claimLog, auxVars>>

\* ----------------------------------------------------------------- messages
MsgIds == {"m1", "m2"}
Roles  == {"implementer", "reviewer"}
Texts  == {"hello", "bye"}

\* What a message call leaves for the caller to see.
MsgCall(op, id, from_role, to_role, text, unread_only, ret) ==
    [op |-> op, id |-> id, from |-> from_role, to |-> to_role, text |-> text,
     unread_only |-> unread_only, ret |-> ret]

NewMessage(msg_id, from_role, to_role, text) ==
    [id |-> msg_id, from |-> from_role, to |-> to_role, timestamp |-> now, text |-> text,
     read |-> FALSE]

PostMessage ==
    \E msg_id \in MsgIds \ DOMAIN messages, from_role \in Roles, to_role \in Roles, text \in Texts :
        /\ messages' = Put(messages, msg_id, NewMessage(msg_id, from_role, to_role, text))
        /\ last' = MsgCall("post", msg_id, from_role, to_role, text, FALSE, <<>>)
        /\ UNCHANGED <<tasks, completions, archive, locks, now, procVars, reaper, fleet, sup, stream>>

WantedAnyRole(msg, for_role, unread_only) == ~(unread_only /\ msg.read)

\* get_messages keeps a message unless one of its two `continue`s skips it
Wanted(msg, for_role, unread_only) == msg.to = for_role /\ ~(unread_only /\ msg.read)

RECURSIVE GetMessagesFrom(_, _, _, _, _)
GetMessagesFrom(dir, order, i, for_role, unread_only) ==
    IF i > Len(order) THEN <<>>
    ELSE (IF Wanted(dir[order[i]], for_role, unread_only) THEN <<dir[order[i]]>> ELSE <<>>)
         \o GetMessagesFrom(dir, order, i + 1, for_role, unread_only)

GetMessages ==
    \E for_role \in Roles, unread_only \in BOOLEAN, order \in Orders(DOMAIN messages) :
        /\ last' = MsgCall("get_messages", NoId, "None", for_role, "None", unread_only,
                           GetMessagesFrom(messages, order, 1, for_role, unread_only))
        /\ UNCHANGED <<tasks, completions, archive, locks, now, procVars, auxVars>>

MarkedRead(msg) == [msg EXCEPT !.read = TRUE]

\* mark_read raises FileNotFoundError when there is no such message file
MarkRead ==
    \E msg_id \in MsgIds :
        /\ IF msg_id \in DOMAIN messages
           THEN /\ messages' = Put(messages, msg_id, MarkedRead(messages[msg_id]))
                /\ last' = MsgCall("mark_read", msg_id, "None", "None", "None", FALSE, <<>>)
           ELSE /\ last' = MsgCall("mark_read_raised", msg_id, "None", "None", "None", FALSE, <<>>)
                /\ UNCHANGED messages
        /\ UNCHANGED <<tasks, completions, archive, locks, now, procVars, reaper, fleet, sup, stream>>

\* -------------------------------------------------------------------- fleet
MAX_RESTARTS == 3

FleetIds   == {"implementer-0", "code-review-0"}  \* agent ids, "<role>-<i>"
ReqIds     == FleetIds \cup {"Bad_ID"}             \* agent ids a request path may carry
Containers == {"c1", "c2"}                        \* container ids the runtime hands out
NoContainer == ""                                 \* start_agent's container_id on failure

\* The strings above, character by character.
Spelling(id) ==
    CASE id = "implementer-0" -> <<"i", "m", "p", "l", "e", "m", "e", "n", "t", "e", "r", "-", "0">>
      [] id = "code-review-0" -> <<"c", "o", "d", "e", "-", "r", "e", "v", "i", "e", "w", "-", "0">>
      [] id = "Bad_ID"        -> <<"B", "a", "d", "_", "I", "D">>

Digits == {"0", "1", "2", "3", "4", "5", "6", "7", "8", "9"}

\* the character class [a-z0-9-]
IdChars ==
    Digits \cup {"-"} \cup
    {"a", "b", "c", "d", "e", "f", "g", "h", "i", "j", "k", "l", "m", "n", "o", "p", "q", "r",
     "s", "t", "u", "v", "w", "x", "y", "z"}

ValidateAgentIdAny(agent_id) == TRUE

\* AGENT_ID_RE.match(agent_id) with ^[a-z0-9-]+$ ; Python's $ also matches
\* just before a line feed that ends the string
Matches(sp) ==
    LET n == IF Len(sp) > 0 /\ sp[Len(sp)] = "\n" THEN Len(sp) - 1 ELSE Len(sp)
    IN  n >= 1 /\ \A i \in 1..n : sp[i] \in IdChars

\* the request ids the pattern accepts
Accepted == {id \in ReqIds : Matches(Spelling(id))}

ValidateAgentId(agent_id) == agent_id \in Accepted

\* str.split("-") of a string spelled sp, from position i on, word being the
\* segment collected so far
RECURSIVE SplitFrom(_, _, _)
SplitFrom(sp, i, word) ==
    IF i > Len(sp) THEN <<word>>
    ELSE IF sp[i] = "-" THEN <<word>> \o SplitFrom(sp, i + 1, <<>>)
    ELSE SplitFrom(sp, i + 1, Append(word, sp[i]))

\* every request id, split at its hyphens
Split == [id \in ReqIds |-> SplitFrom(Spelling(id), 1, <<>>)]

Segments(id) == Split[id]

\* what rsplit leaves of each of them
Heads ==
    [id \in ReqIds |-> IF Len(Segments(id)) > 1
                        THEN SubSeq(Segments(id), 1, Len(Segments(id)) - 1)
                        ELSE Segments(id)]

RoleOfWhole(agent_id) == Segments(agent_id)

\* agent_id.rsplit("-", 1)[0] if "-" in agent_id else agent_id, as segments
RoleOf(agent_id) == Heads[agent_id]

\* the configuration: role name -> replica count and model (None: no model key)
RoleNames    == {Heads[a] : a \in FleetIds}
Counts       == {0, 1}
DefaultModel == "claude-sonnet-4-5-20250929"
\* the model key of each role's section: one role names a model, the other none
ConfiguredModel == [r \in RoleNames |-> IF r = Heads["implementer-0"] THEN "opus" ELSE "None"]
Configs ==
    UNION {{[r \in roles |-> [count |-> n[r], model |-> ConfiguredModel[r]]] : n \in [roles -> Counts]} :
           roles \in SUBSET RoleNames}

\* str(i), as its spelling
DigitOf(i) == <<"0", "1", "2", "3", "4", "5", "6", "7", "8", "9">>[i + 1]

\* f"{role}-{i}" for every role and replica index
AgentIds ==
    [role \in RoleNames, i \in 0..9 |->
        IF \E a \in FleetIds : Segments(a) = Append(role, <<DigitOf(i)>>)
        THEN CHOOSE a \in FleetIds : Segments(a) = Append(role, <<DigitOf(i)>>)
        ELSE NoId]

AgentIdOf(role, i) == AgentIds[role, i]

EntryNoModel(agent_id, role, model, status, container_id, started_at) ==
    [status |-> status, container_id |-> container_id, started_at |-> started_at,
     role |-> role, model |-> "", restart_count |-> 0]

Entry(agent_id, role, model, status, container_id, started_at) ==
    [status |-> status, container_id |-> container_id, started_at |-> started_at,
     role |-> role, model |-> model, restart_count |-> 0]

\* What a fleet call leaves to see: the container ids the runtime reported
\* running, the runtime calls the handler made (by their argument, with their
\* results), and what the request carried.
FleetCall(op, id, result, running, outcome) ==
    [op |-> op, id |-> id, result |-> result, running |-> running,
     restarted |-> DOMAIN outcome, outcome |-> outcome, arg |-> <<>>]

\* the runtime gives every container its own id
Distinct(fl) ==
    \A a, b \in DOMAIN fl :
        (a # b /\ fl[a].container_id # NoContainer) => fl[a].container_id # fl[b].container_id

FleetFrame == UNCHANGED <<tasks, completions, archive, locks, now, procVars, reaper, messages, sup, stream>>

\* the agents fleet_start goes through: every role's replicas 0..count-1
Replicas(config) ==
    UNION {{AgentIdOf(r, i) : i \in 0..(config[r].count - 1)} : r \in DOMAIN config}

\* the role in whose loop fleet_start reaches agent_id
RoleStarting(config, agent_id) ==
    CHOOSE r \in DOMAIN config : \E i \in 0..(config[r].count - 1) : AgentIdOf(r, i) = agent_id

StartedNoContainer(agent_id, role, model, container_id) ==
    Entry(agent_id, role, IF model = "None" THEN DefaultModel ELSE model,
          IF container_id = NoContainer THEN "no-container" ELSE "running", container_id, now)

\* the entry fleet_start records for start_agent's result
Started(agent_id, role, model, container_id) ==
    Entry(agent_id, role, IF model = "None" THEN DefaultModel ELSE model,
          IF container_id = NoContainer THEN "failed" ELSE "running", container_id, now)

\* POST /fleet/start: start_agent for every configured agent, each result recorded
FleetStart ==
    \E config \in Configs :
        /\ IF DOMAIN config = {}
           THEN /\ last' = [FleetCall("fleet_start", NoId, "rejected", {}, <<>>) EXCEPT !.arg = config]
                /\ UNCHANGED fleet
           ELSE \E started \in [Replicas(config) -> Containers \cup {NoContainer}] :
                /\ fleet' = [a \in DOMAIN fleet \cup DOMAIN started |->
                                IF a \in DOMAIN started
                                THEN Started(a, RoleStarting(config, a),
                                             config[RoleStarting(config, a)].model, started[a])
                                ELSE fleet[a]]
                /\ Distinct(fleet')
                /\ last' = [FleetCall("fleet_start", NoId, "ok", {}, started) EXCEPT !.arg = config]
        /\ FleetFrame

FleetStopRunningOnly ==
    \E stopped \in 0..Cardinality(Containers) :
        /\ fleet' = [a \in {b \in DOMAIN fleet : fleet[b].status \notin {"running", "healthy"}} |-> fleet[a]]
        /\ last' = [FleetCall("fleet_stop", NoId, stopped, {}, <<>>) EXCEPT !.arg = DOMAIN fleet]
        /\ FleetFrame

\* POST /fleet/stop: stop_fleet reports how many containers it stopped, the table
\* is cleared; last.arg keeps the agent ids the table held
FleetStop ==
    \E stopped \in 0..Cardinality(Containers) :
        /\ fleet' = <<>>
        /\ last' = [FleetCall("fleet_stop", NoId, stopped, {}, <<>>) EXCEPT !.arg = DOMAIN fleet]
        /\ FleetFrame

\* POST /agents/{agent_id}/stop
AgentStop ==
    \E agent_id \in ReqIds, stopped \in BOOLEAN :
        /\ IF ~ValidateAgentId(agent_id)
           THEN /\ last' = FleetCall("agent_stop", agent_id, "400", {}, <<>>)
                /\ UNCHANGED fleet
           ELSE IF agent_id \notin DOMAIN fleet
           THEN /\ last' = FleetCall("agent_stop", agent_id, "404", {}, <<>>)
                /\ UNCHANGED fleet
           ELSE /\ fleet' = [fleet EXCEPT ![agent_id].status = "stopped"]
                /\ last' = FleetCall("agent_stop", agent_id, "stopped", {},
                                     [c \in {fleet[agent_id].container_id} |-> stopped])
        /\ FleetFrame

AgentRestartKeepsCount ==
    \E agent_id \in ReqIds, result \in {"running", "failed"} :
        /\ IF ~ValidateAgentId(agent_id)
           THEN /\ last' = FleetCall("agent_restart", agent_id, "400", {}, <<>>)
                /\ UNCHANGED fleet
           ELSE IF agent_id \notin DOMAIN fleet
           THEN /\ last' = FleetCall("agent_restart", agent_id, "404", {}, <<>>)
                /\ UNCHANGED fleet
           ELSE /\ fleet' = [fleet EXCEPT ![agent_id].status = result]
                /\ last' = FleetCall("agent_restart", agent_id, result, {},
                                     [c \in {fleet[agent_id].container_id} |-> result])
        /\ FleetFrame

\* POST /agents/{agent_id}/restart
AgentRestart ==
    \E agent_id \in ReqIds, result \in {"running", "failed"} :
        /\ IF ~ValidateAgentId(agent_id)
           THEN /\ last' = FleetCall("agent_restart", agent_id, "400", {}, <<>>)
                /\ UNCHANGED fleet
           ELSE IF agent_id \notin DOMAIN fleet
           THEN /\ last' = FleetCall("agent_restart", agent_id, "404", {}, <<>>)
                /\ UNCHANGED fleet
           ELSE /\ fleet[agent_id].restart_count < MaxRestartCount
                /\ fleet' = [fleet EXCEPT ![agent_id].status = result,
                                          ![agent_id].restart_count = @ + 1]
                /\ last' = FleetCall("agent_restart", agent_id, result, {},
                                     [c \in {fleet[agent_id].container_id} |-> result])
        /\ FleetFrame

\* docker ps: the running containers whose name holds the prefix somewhere; a
\* name is what stands before the agent id, and the agent id
CONTAINER_PREFIX == "claude-agent-"
Names == ({CONTAINER_PREFIX} \X FleetIds) \cup {<<"old-claude-agent-", "implementer-0">>}
Listings ==
    {l \in SUBSET [name : Names, container_id : Containers] :
        \A x, y \in l : (x.name = y.name \/ x.container_id = y.container_id) => x = y}

\* _reconstruct_fleet_state at supervisor start: one entry per running container
\* the table _reconstruct_fleet_state builds from a listing
Reconstructed(listing) ==
    [a \in {x.name[2] : x \in {y \in listing : y.name[1] = CONTAINER_PREFIX}} |->
        Entry(a, RoleOf(a), "", "running",
              (CHOOSE x \in listing : x.name = <<CONTAINER_PREFIX, a>>).container_id,
              NoTime)]

ReconstructFleetState ==
    \E listing \in Listings :
        /\ fleet' = Reconstructed(listing)
        /\ last' = [FleetCall("reconstruct", NoId, "ok", {x.container_id : x \in listing}, <<>>)
                       EXCEPT !.arg = listing]
        /\ FleetFrame

HealthOfUnbounded(state, running_ids, result) ==
    IF state.container_id = NoContainer THEN state
    ELSE IF state.container_id \in running_ids THEN [state EXCEPT !.status = "healthy"]
    ELSE [state EXCEPT !.status = IF result = "running" THEN "restarting" ELSE "crashed",
                       !.restart_count = @ + 1]

HealthOfResetCount(state, running_ids, result) ==
    IF state.container_id = NoContainer THEN state
    ELSE IF state.container_id \in running_ids
         THEN [state EXCEPT !.status = "healthy", !.restart_count = 0]
    ELSE IF state.restart_count < MAX_RESTARTS
         THEN [state EXCEPT !.status = IF result = "running" THEN "restarting" ELSE "crashed",
                            !.restart_count = @ + 1]
    ELSE [state EXCEPT !.status = "crashed"]

HealthOfSparesStopped(state, running_ids, result) ==
    IF state.container_id = NoContainer \/ state.status = "stopped" THEN state
    ELSE IF state.container_id \in running_ids THEN [state EXCEPT !.status = "healthy"]
    ELSE IF state.restart_count < MAX_RESTARTS
         THEN [state EXCEPT !.status = IF result = "running" THEN "restarting" ELSE "crashed",
                            !.restart_count = @ + 1]
    ELSE [state EXCEPT !.status = "crashed"]

\* the body of _health_check's loop for one entry; result is what restart_agent
\* returns if it is called
HealthOf(state, running_ids, result) ==
    IF state.container_id = NoContainer THEN state
    ELSE IF state.container_id \in running_ids THEN [state EXCEPT !.status = "healthy"]
    ELSE IF state.restart_count < MAX_RESTARTS
         THEN [state EXCEPT !.status = IF result = "running" THEN "restarting" ELSE "crashed",
                            !.restart_count = @ + 1]
    ELSE [state EXCEPT !.status = "crashed"]

ToRestartUnbounded(fl, running_ids) ==
    {a \in DOMAIN fl : /\ fl[a].container_id # NoContainer
                       /\ fl[a].container_id \notin running_ids}

\* the entries _health_check calls restart_agent for
ToRestart(fl, running_ids) ==
    {a \in DOMAIN fl : /\ fl[a].container_id # NoContainer
                       /\ fl[a].container_id \notin running_ids
                       /\ fl[a].restart_count < MAX_RESTARTS}

\* one health tick, the whole of it under _fleet_lock; last.arg keeps the
\* agents the tick found stopped by the operator
HealthCheck ==
    /\ IF fleet = <<>>
       THEN /\ last' = FleetCall("health", NoId, "empty", {}, <<>>)
            /\ UNCHANGED fleet
       ELSE \E running_ids \in SUBSET Containers, result \in [DOMAIN fleet -> {"running", "failed"}] :
            /\ fleet' = [a \in DOMAIN fleet |-> HealthOf(fleet[a], running_ids, result[a])]
            /\ last' = [FleetCall("health", NoId, "ok", running_ids,
                                  [c \in {fleet[a].container_id : a \in ToRestart(fleet, running_ids)} |->
                                      result[CHOOSE a \in DOMAIN fleet : fleet[a].container_id = c]])
                           EXCEPT !.arg = {a \in DOMAIN fleet : fleet[a].status = "stopped"}]
    /\ FleetFrame

\* The same handlers as coroutines on the event loop: each enters its
\* `async with _fleet_lock:` block, works on the table entry by entry, and
\* leaves the block; other coroutines may run between any two of these steps.
Handlers == {"fleet_start", "fleet_stop", "agent_stop", "agent_restart", "health_check"}

NoSup ==
    [lock |-> "free", pc |-> [h \in Handlers |-> "idle"], todo |-> [h \in Handlers |-> {}],
     running |-> {}]

MayEnterAlways(s) == TRUE

\* asyncio.Lock: the `async with` goes on only while no coroutine holds the lock
MayEnter(s) == s.lock = "free"

\* the table entries a handler is going to work on, by the request it serves
WorkOf(h) ==
    CASE h = "fleet_start"   -> (SUBSET FleetIds) \ {{}}
      [] h = "fleet_stop"    -> {{}}
      [] h = "agent_stop"    -> {{a} : a \in DOMAIN fleet} \cup {{} : a \in FleetIds \ DOMAIN fleet}
      [] h = "agent_restart" -> {{a} : a \in {b \in DOMAIN fleet : fleet[b].restart_count < MaxRestartCount}}
                                \cup {{} : a \in FleetIds \ DOMAIN fleet}
      [] h = "health_check"  -> {DOMAIN fleet}

HandlerFrame == UNCHANGED <<tasks, completions, archive, locks, now, procVars, reaper, messages, stream>>

HandlerEnter ==
    \E h \in Handlers :
        /\ sup.pc[h] = "idle"
        /\ MayEnter(sup)
        /\ \E work \in WorkOf(h), running_ids \in SUBSET Containers :
              /\ h # "health_check" => running_ids = {}
              /\ sup' = [sup EXCEPT !.lock = h,
                                    !.pc[h] = IF work = {} /\ h # "fleet_stop" THEN "done" ELSE "in",
                                    !.todo[h] = work,
                                    !.running = IF h = "health_check" THEN running_ids ELSE @]
        /\ last' = FleetCall("enter", h, "ok", {}, <<>>)
        /\ UNCHANGED fleet
        /\ HandlerFrame

\* what a handler writes for one entry; a missing entry is a KeyError that ends the handler
Worked(h, a, started, result) ==
    CASE h = "fleet_start" ->
             Put(fleet, a, Started(a, RoleOf(a), "None", started))
      [] h = "fleet_stop" -> <<>>
      [] a \notin DOMAIN fleet -> fleet
      [] h = "agent_stop" -> [fleet EXCEPT ![a].status = "stopped"]
      [] h = "agent_restart" ->
             [fleet EXCEPT ![a].status = result,
                           ![a].restart_count = @ + 1]
      [] h = "health_check" -> [fleet EXCEPT ![a] = HealthOf(@, sup.running, result)]

HandlerStep ==
    \E h \in Handlers :
        /\ sup.pc[h] = "in"
        /\ \E a \in IF h = "fleet_stop" THEN {NoId} ELSE sup.todo[h],
              started \in Containers \cup {NoContainer}, result \in {"running", "failed"} :
              /\ fleet' = Worked(h, a, started, result)
              /\ Distinct(fleet')
              /\ sup' = [sup EXCEPT !.todo[h] = @ \ {a},
                                    !.pc[h] = IF sup.todo[h] \ {a} = {} THEN "done" ELSE "in"]
        /\ last' = FleetCall("step", h, "ok", {}, <<>>)
        /\ HandlerFrame

\* leaving the `async with` block releases the lock
HandlerExit ==
    \E h \in Handlers :
        /\ sup.pc[h] = "done"
        /\ sup' = [sup EXCEPT !.lock = "free", !.pc[h] = "idle", !.todo[h] = {}, !.running = {}]
        /\ last' = FleetCall("exit", h, "ok", {}, <<>>)
        /\ UNCHANGED fleet
        /\ HandlerFrame

\* ------------------------------------------------------------ fleet summary
\* _get_fleet_context, the part drawn from the fleet table
FleetContext(fl) ==
    LET running_count == Cardinality({a \in DOMAIN fl : fl[a].status = "running"}) IN
    [fleet_status |-> IF running_count > 0 THEN "running" ELSE "stopped",
     fleet_count |-> running_count,
     fleet_total |-> Cardinality(DOMAIN fl)]

\* the fleet controls are rendered
GetFleetContext ==
    /\ last' = FleetCall("fleet_context", NoId, FleetContext(fleet), {}, <<>>)
    /\ UNCHANGED <<fleet, stream>>
    /\ FleetFrame

\* -------------------------------------------------------------- agent cards
\* the agent ids locks are held under: the fleet's agents and one without a container
CardAgents == FleetIds \cup {"a1"}

\* agent ids in the order sorted() gives them
CardOrder == <<"a1", "code-review-0", "implementer-0">>

\* _annotate_locks: age_minutes < 10
Fresh(lk) == (now - lk.last_heartbeat) * TickSeconds < 10 * 60

\* lock.list_locks: the lock files in the order of their names
RECURSIVE ListLocksFrom(_, _)
ListLocksFrom(dir, i) ==
    IF i > Len(IdOrder) THEN <<>>
    ELSE (IF IdOrder[i] \in DOMAIN dir THEN <<dir[IdOrder[i]]>> ELSE <<>>) \o ListLocksFrom(dir, i + 1)

\* the card of a fleet entry, before the locks are looked at
FleetCard(agent_id, state) ==
    [agent_id |-> agent_id, role |-> state.role, status |-> state.status,
     container_id |-> state.container_id, task_id |-> NoId,
     fresh |-> (state.status = "running"), orphaned_lock |-> FALSE]

OrphanCardFresh(lk) ==
    [agent_id |-> lk.agent_id, role |-> <<>>, status |-> "no container", container_id |-> NoContainer,
     task_id |-> lk.task_id, fresh |-> Fresh(lk), orphaned_lock |-> TRUE]

\* the card made for a lock whose agent has no card yet
OrphanCard(lk) ==
    [agent_id |-> lk.agent_id, role |-> <<>>, status |-> "no container", container_id |-> NoContainer,
     task_id |-> lk.task_id, fresh |-> FALSE, orphaned_lock |-> TRUE]

\* the loop over the locks
RECURSIVE Enriched(_, _)
Enriched(cards, lks) ==
    IF lks = <<>> THEN cards
    ELSE LET lk == Head(lks) IN
         Enriched(IF lk.agent_id \in DOMAIN cards
                  THEN [cards EXCEPT ![lk.agent_id].task_id = lk.task_id,
                                     ![lk.agent_id].fresh = Fresh(lk)]
                  ELSE Put(cards, lk.agent_id, OrphanCard(lk)),
                  Tail(lks))

\* sorted(cards.values(), key=agent_id)
RECURSIVE SortedFrom(_, _)
SortedFrom(cards, i) ==
    IF i > Len(CardOrder) THEN <<>>
    ELSE (IF CardOrder[i] \in DOMAIN cards THEN <<cards[CardOrder[i]]>> ELSE <<>>)
         \o SortedFrom(cards, i + 1)

AgentCards(fl, dir) ==
    SortedFrom(Enriched([a \in DOMAIN fl |-> FleetCard(a, fl[a])], ListLocksFrom(dir, 1)), 1)

\* the agents panel is rendered
GetAgentCards ==
    /\ last' = FleetCall("agent_cards", NoId, AgentCards(fleet, locks), {}, <<>>)
    /\ UNCHANGED <<fleet, stream>>
    /\ FleetFrame

\* --------------------------------------------------------------- log stream
TicksPerSecond == 2      \* time.monotonic(), read in half seconds

\* no websocket opened yet
NoStream ==
    [pc |-> "idle", proc |-> "none", client |-> "connected", clock |-> 0, lines_per_sec |-> 0,
     last_reset |-> 0, emitted |-> 0, sent |-> <<>>, dropped |-> {}, ended_by |-> "None"]

LogsFrame ==
    UNCHANGED <<tasks, completions, archive, locks, now, procVars, reaper, messages, fleet, sup>>

\* the websocket is opened: id checked, table looked up, socket accepted, child spawned
LogsOpen ==
    \E agent_id \in ReqIds, spawned \in BOOLEAN :
        /\ stream.pc = "idle"
        /\ IF ~ValidateAgentId(agent_id)
           THEN /\ stream' = [stream EXCEPT !.pc = "done", !.ended_by = "invalid"]
                /\ last' = FleetCall("logs_ws", agent_id, "1008", {}, <<>>)
           ELSE IF agent_id \notin DOMAIN fleet
           THEN /\ stream' = [stream EXCEPT !.pc = "done", !.ended_by = "unknown"]
                /\ last' = FleetCall("logs_ws", agent_id, "1008", {}, <<>>)
           ELSE IF ~spawned
           THEN /\ stream' = [stream EXCEPT !.pc = "done", !.ended_by = "no-child"]
                /\ last' = FleetCall("logs_ws", agent_id, "accepted", {}, <<>>)
           ELSE /\ stream' = [stream EXCEPT !.pc = "loop", !.proc = "running",
                                            !.lines_per_sec = 0, !.last_reset = stream.clock]
                /\ last' = FleetCall("logs_ws", agent_id, "accepted", {fleet[agent_id].container_id}, <<>>)
        /\ LogsFrame

\* the counter and window after one more line was read at clock reading now_
Counted(st, now_) ==
    IF now_ - st.last_reset >= TicksPerSecond
    THEN [st EXCEPT !.lines_per_sec = 1, !.last_reset = now_]
    ELSE [st EXCEPT !.lines_per_sec = @ + 1]

\* if lines_per_sec == 501
NoticeDue(lines_per_sec) == lines_per_sec = LineLimit + 1

\* websocket.send_text: raises once the client is gone, which takes the handler
\* to its finally block
Send(st, item) ==
    IF st.client = "gone"
    THEN [st EXCEPT !.pc = "finally", !.ended_by = "disconnect"]
    ELSE [st EXCEPT !.sent = Append(@, item)]

\* one pass of the loop with a line read: the runtime's next line, number n
LogsLine ==
    /\ stream.pc = "loop"
    /\ stream.proc = "running"
    /\ stream.emitted < MaxLines
    /\ LET n  == stream.emitted + 1
           st == [Counted(stream, stream.clock) EXCEPT !.emitted = n]
       IN  stream' =
             IF st.lines_per_sec > LineLimit
             THEN IF NoticeDue(st.lines_per_sec)
                  THEN Send([st EXCEPT !.dropped = @ \cup {n}],
                            [kind |-> "notice", line |-> 0, at |-> st.clock])
                  ELSE [st EXCEPT !.dropped = @ \cup {n}]
             ELSE Send(st, [kind |-> "line", line |-> n, at |-> st.clock])
    /\ UNCHANGED last
    /\ LogsFrame

\* readline returns b"": the child's output ended; its return code may or
\* may not have been collected yet
LogsEof ==
    \E collected \in BOOLEAN :
        /\ stream.pc = "loop"
        /\ stream.proc = "running"
        /\ stream' = [stream EXCEPT !.pc = "finally", !.ended_by = "eof",
                                    !.proc = IF collected THEN "exited" ELSE "running"]
        /\ UNCHANGED last
        /\ LogsFrame

\* wait_for(readline, timeout=30.0) raises TimeoutError
LogsTimeout ==
    /\ stream.pc = "loop"
    /\ stream' = [stream EXCEPT !.pc = "finally", !.ended_by = "timeout"]
    /\ UNCHANGED last
    /\ LogsFrame

\* the browser closes the socket
ClientLeaves ==
    /\ stream.pc = "loop"
    /\ stream.client = "connected"
    /\ stream' = [stream EXCEPT !.client = "gone"]
    /\ UNCHANGED last
    /\ LogsFrame

ReapedNever(proc) == proc

\* if proc and proc.returncode is None: proc.kill(); await proc.wait()
Reaped(proc) == IF proc = "running" THEN "reaped" ELSE proc

\* the finally block
LogsFinally ==
    /\ stream.pc = "finally"
    /\ stream' = [stream EXCEPT !.pc = "done", !.proc = Reaped(stream.proc)]
    /\ UNCHANGED last
    /\ LogsFrame

StreamTick ==
    /\ stream.clock < MaxClock
    /\ stream' = [stream EXCEPT !.clock = @ + 1]
    /\ UNCHANGED last
    /\ LogsFrame

\* --------------------------------------------------------------------- time
Tick ==
    /\ now < MaxTime
    /\ now' = now + 1
    /\ last' = Call("tick", NoId, NoAgent, "ok")
    /\ UNCHANGED <<tasks, completions, archive, locks, procVars, auxVars>>

\* ------------------------------------------------------------ specifications
\* no cleanup_stale call in progress, no message file, an empty fleet table
InitAux ==
    /\ reaper = NoReaper
    /\ messages = <<>>
    /\ fleet = <<>>
    /\ sup = NoSup
    /\ stream = NoStream

Init ==
    /\ tasks = <<>>
    /\ archive = <<>>
    /\ locks = <<>>
    /\ now = 0
    /\ last = Call("init", NoId, NoAgent, "ok")
    /\ completions = [id \in TaskIds |-> 0]
    /\ pc = [a \in Agents |-> "idle"]
    /\ cur = [a \in Agents |-> NoId]
    /\ snap = [a \in Agents |-> NoSnap]
    /\ holders = [id \in TaskIds |-> {}]
    /\ claimLog = [id \in TaskIds |-> <<>>]
    /\ InitAux

\* The board store alone, every call one step.
NextBoard ==
    \/ AddTask
    \/ ClaimTask
    \/ CompleteTask
    \/ FailTask
    \/ ArchiveDone
    \/ ReopenTask
    \/ DeleteTask
    \/ Tick

SpecBoard == Init /\ [][NextBoard]_vars

\* acquire_lock as one uninterrupted call
AcquireLock ==
    \E agent_id \in Agents, task_id \in TaskIds :
        /\ IF ~MayCreate(locks, task_id)
           THEN /\ last' = Call("acquire", task_id, agent_id, "false")
                /\ UNCHANGED <<locks, holders>>
           ELSE /\ locks' = Put(locks, task_id, NewLock(task_id, agent_id))
                /\ holders' = [holders EXCEPT ![task_id] = @ \cup {agent_id}]
                /\ last' = Call("acquire", task_id, agent_id, "true")
        /\ UNCHANGED <<tasks, completions, archive, now, pc, cur, snap, claimLog, auxVars>>

\* The dashboard's task actions over the board and the lock store together,
\* every call one step.
NextAdmin ==
    \/ AddTask
    \/ ClaimTask
    \/ CompleteTask
    \/ AcquireLock
    \/ ReopenTask
    \/ DeleteTask

SpecAdmin == Init /\ [][NextAdmin]_vars

\* The fleet supervisor: its handlers and the health tick, each one step under
\* _fleet_lock, with the container runtime answering as it pleases.
NextFleet ==
    \/ ReconstructFleetState
    \/ FleetStart
    \/ FleetStop
    \/ AgentStop
    \/ AgentRestart
    \/ HealthCheck

SpecFleet == Init /\ [][NextFleet]_vars

\* the fleet controls, over tables made by start-fleet, reconstruction and
\* health ticks
NextSummary ==
    \/ ReconstructFleetState
    \/ FleetStart
    \/ HealthCheck
    \/ GetFleetContext

SpecSummary == Init /\ [][NextSummary]_vars

\* the supervisor just started: the fleet table is what it reconstructed
InitReconstructed ==
    /\ tasks = <<>>
    /\ archive = <<>>
    /\ locks = <<>>
    /\ now = 0
    /\ \E listing \in Listings :
          /\ fleet = Reconstructed(listing)
          /\ last = [FleetCall("reconstruct", NoId, "ok", {x.container_id : x \in listing}, <<>>)
                        EXCEPT !.arg = listing]
    /\ completions = [id \in TaskIds |-> 0]
    /\ pc = [a \in Agents |-> "idle"]
    /\ cur = [a \in Agents |-> NoId]
    /\ snap = [a \in Agents |-> NoSnap]
    /\ holders = [id \in TaskIds |-> {}]
    /\ claimLog = [id \in TaskIds |-> <<>>]
    /\ reaper = NoReaper
    /\ messages = <<>>
    /\ sup = NoSup
    /\ stream = NoStream

\* the supervisor just started, and agents of this and of an earlier fleet hold
\* locks they acquired and refreshed at some time up to now
InitCards ==
    /\ tasks = <<>>
    /\ archive = <<>>
    /\ now \in 0..MaxTime
    /\ \E held \in SUBSET TaskIds :
          locks \in [held -> [agent_id : CardAgents, task_id : TaskIds,
                              acquired_at : {0}, last_heartbeat : 0..MaxTime]]
    /\ \A id \in DOMAIN locks : locks[id].task_id = id /\ locks[id].last_heartbeat <= now
    /\ \E listing \in Listings :
          /\ fleet = Reconstructed(listing)
          /\ last = [FleetCall("reconstruct", NoId, "ok", {x.container_id : x \in listing}, <<>>)
                        EXCEPT !.arg = listing]
    /\ completions = [id \in TaskIds |-> 0]
    /\ pc = [a \in Agents |-> "idle"]
    /\ cur = [a \in Agents |-> NoId]
    /\ snap = [a \in Agents |-> NoSnap]
    /\ holders = [id \in TaskIds |-> {}]
    /\ claimLog = [id \in TaskIds |-> <<>>]
    /\ reaper = NoReaper
    /\ messages = <<>>
    /\ sup = NoSup
    /\ stream = NoStream

\* the agents panel, with agents being stopped in between
NextCards ==
    \/ GetAgentCards
    \/ AgentStop

SpecCards == InitCards /\ [][NextCards]_vars

\* one log websocket against that table
NextLogs ==
    \/ LogsOpen
    \/ LogsLine
    \/ LogsEof
    \/ LogsTimeout
    \/ ClientLeaves
    \/ LogsFinally
    \/ StreamTick

SpecLogs == InitReconstructed /\ [][NextLogs]_vars

\* the health monitor left to itself: nothing but its ticks
NextHealth == HealthCheck

SpecHealth == InitReconstructed /\ [][NextHealth]_vars

\* The supervisor's handlers and the health check as interleaved coroutines.
NextHandlers ==
    \/ HandlerEnter
    \/ HandlerStep
    \/ HandlerExit

SpecHandlers == Init /\ [][NextHandlers]_vars

\* The message store alone, every call one step.
NextMessages ==
    \/ PostMessage
    \/ GetMessages
    \/ MarkRead

SpecMessages == Init /\ [][NextMessages]_vars

\* The lock store alone: acquire_lock in its two steps, the other calls one step.
LockAcquireCheck ==
    \E agent_id \in Agents, task_id \in TaskIds :
        /\ pc[agent_id] = "idle"
        /\ AcquireCheck(agent_id, task_id, "idle")
        /\ UNCHANGED <<tasks, completions, archive, locks, now, snap, holders, claimLog, auxVars>>

LockAcquireWrite ==
    \E agent_id \in Agents :
        /\ AcquireWrite(agent_id, "idle")
        /\ UNCHANGED <<tasks, completions, archive, now, snap, claimLog, auxVars>>

ReleaseLock ==
    \E task_id \in TaskIds, agent_id \in Agents :
        /\ pc[agent_id] = "idle"
        /\ ReleaseLockBy(task_id, agent_id)
        /\ UNCHANGED <<tasks, completions, archive, now, pc, cur, snap, claimLog, auxVars>>

RefreshLock ==
    \E task_id \in TaskIds, agent_id \in Agents :
        /\ pc[agent_id] = "idle"
        /\ RefreshLockBy(task_id, agent_id)
        /\ UNCHANGED <<tasks, completions, archive, now, procVars, auxVars>>

\* Every call that is addressed to one task id, over the board and the lock
\* store together, every call one step.
NextRecords ==
    \/ AddTask
    \/ ClaimTask
    \/ CompleteTask
    \/ FailTask
    \/ ReopenTask
    \/ DeleteTask
    \/ AcquireLock
    \/ ReleaseLock
    \/ RefreshLock

SpecRecords == Init /\ [][NextRecords]_vars

\* refresh_lock in its two steps, with the calls that remove or create locks
\* running in other processes
NextRefresh ==
    \/ AddTask
    \/ AcquireLock
    \/ ReleaseLock
    \/ RefreshRead
    \/ RefreshWrite
    \/ CleanupStale
    \/ ReopenTask
    \/ DeleteTask
    \/ Tick

SpecRefresh == Init /\ [][NextRefresh]_vars

NextLock ==
    \/ LockAcquireCheck
    \/ LockAcquireWrite
    \/ ReleaseLock
    \/ RefreshLock
    \/ CleanupStale
    \/ Tick

SpecLock == Init /\ [][NextLock]_vars

\* The lock store with cleanup_stale running step by step beside the agents'
\* acquire_lock, refresh_lock and release_lock calls.
NextReaper ==
    \/ LockAcquireCheck
    \/ LockAcquireWrite
    \/ ReleaseLock
    \/ RefreshLock
    \/ ReaperBegin
    \/ ReaperRead
    \/ ReaperUnlink
    \/ ReaperReturn
    \/ Tick

SpecReaper == Init /\ [][NextReaper]_vars

\* Agents following the claim-then-lock protocol: claim_task, acquire_lock on
\* the task returned, heartbeats while working, complete_task, release_lock.
\* claim_task's directory read and its write of the chosen record are two
\* steps, as are acquire_lock's existence check and its write. An agent may
\* crash anywhere in between. The dashboard adds, reopens and deletes tasks
\* and reaps stale locks meanwhile.
AgentClaimRead ==
    \E agent_id \in Agents, order \in Orders(DOMAIN tasks) :
        /\ pc[agent_id] = "idle"
        /\ LET open_tasks == OpenTasks(tasks, order) IN
           IF open_tasks = <<>>
           THEN /\ last' = Call("claim", NoId, agent_id, "none")
                /\ UNCHANGED <<pc, snap>>
           ELSE /\ snap' = [snap EXCEPT ![agent_id] = Head(open_tasks)]
                /\ pc' = [pc EXCEPT ![agent_id] = "claim_write"]
                /\ last' = Call("claim_read", Head(open_tasks).id, agent_id, "chosen")
        /\ UNCHANGED <<tasks, completions, archive, locks, now, cur, holders, claimLog, auxVars>>

AgentClaimWrite ==
    \E agent_id \in Agents :
        /\ pc[agent_id] = "claim_write"
        /\ tasks' = Put(tasks, snap[agent_id].id, Locked(snap[agent_id], agent_id))
        /\ completions' = [completions EXCEPT ![snap[agent_id].id] = 0]
        /\ pc' = [pc EXCEPT ![agent_id] = "claimed"]
        /\ cur' = [cur EXCEPT ![agent_id] = snap[agent_id].id]
        /\ snap' = [snap EXCEPT ![agent_id] = NoSnap]
        /\ last' = Call("claim", snap[agent_id].id, agent_id, "ok")
        /\ UNCHANGED <<archive, locks, now, holders, claimLog, auxVars>>

AgentAcquireCheck ==
    \E agent_id \in Agents :
        /\ pc[agent_id] = "claimed"
        /\ AcquireCheck(agent_id, cur[agent_id], "idle")
        /\ UNCHANGED <<tasks, completions, archive, locks, now, snap, holders, claimLog, auxVars>>

AgentAcquireWrite ==
    \E agent_id \in Agents :
        /\ AcquireWrite(agent_id, "working")
        /\ UNCHANGED <<tasks, completions, archive, now, snap, claimLog, auxVars>>

\* the heartbeat of a working agent; an agent whose refresh fails aborts its task
AgentHeartbeat ==
    \E agent_id \in Agents :
        /\ pc[agent_id] = "working"
        /\ RefreshLockBy(cur[agent_id], agent_id)
        /\ pc' = [pc EXCEPT ![agent_id] = IF last'.result = "true" THEN "working" ELSE "idle"]
        /\ cur' = [cur EXCEPT ![agent_id] = IF last'.result = "true" THEN @ ELSE NoId]
        /\ UNCHANGED <<tasks, completions, archive, now, snap, holders, claimLog, auxVars>>

AgentComplete ==
    \E agent_id \in Agents :
        /\ pc[agent_id] = "working"
        /\ CompleteTaskBy(cur[agent_id], agent_id)
        /\ pc' = [pc EXCEPT ![agent_id] = "completed"]
        /\ UNCHANGED <<archive, locks, now, cur, snap, holders, claimLog, auxVars>>

AgentRelease ==
    \E agent_id \in Agents :
        /\ pc[agent_id] = "completed"
        /\ ReleaseLockBy(cur[agent_id], agent_id)
        /\ pc' = [pc EXCEPT ![agent_id] = "idle"]
        /\ cur' = [cur EXCEPT ![agent_id] = NoId]
        /\ UNCHANGED <<tasks, completions, archive, now, snap, claimLog, auxVars>>

\* the agent's process dies where it stands and writes nothing more
AgentCrash ==
    \E agent_id \in Agents :
        /\ pc[agent_id] \notin {"idle", "crashed"}
        /\ pc' = [pc EXCEPT ![agent_id] = "crashed"]
        /\ snap' = [snap EXCEPT ![agent_id] = NoSnap]
        /\ last' = Call("crash", cur[agent_id], agent_id, "ok")
        /\ UNCHANGED <<tasks, completions, archive, locks, now, cur, holders, claimLog, auxVars>>

Next ==
    \/ AddTask
    \/ AgentClaimRead
    \/ AgentClaimWrite
    \/ AgentAcquireCheck
    \/ AgentAcquireWrite
    \/ AgentHeartbeat
    \/ AgentComplete
    \/ AgentRelease
    \/ AgentCrash
    \/ CleanupLocks
    \/ ReopenTask
    \/ DeleteTask
    \/ Tick

Spec == Init /\ [][Next]_vars

\* The workers of the integration test: each loops claim_task, complete_task
\* until claim_task returns None, every call under the test's mutex.
InitWorkers ==
    /\ \E present \in SUBSET TaskIds : \E prio \in [present -> Priorities] :
          tasks = [id \in present |-> NewTask(id, prio[id])]
    /\ archive = <<>>
    /\ locks = <<>>
    /\ now = 0
    /\ last = Call("init", NoId, NoAgent, "ok")
    /\ completions = [id \in TaskIds |-> 0]
    /\ pc = [a \in Agents |-> "claim"]
    /\ cur = [a \in Agents |-> NoId]
    /\ snap = [a \in Agents |-> NoSnap]
    /\ holders = [id \in TaskIds |-> {}]
    /\ claimLog = [id \in TaskIds |-> <<>>]
    /\ InitAux

WorkerClaim ==
    \E agent_id \in Agents :
        /\ pc[agent_id] = "claim"
        /\ ClaimTaskBy(agent_id)
        /\ pc' = [pc EXCEPT ![agent_id] = IF last'.result = "none" THEN "exit" ELSE "complete"]
        /\ cur' = [cur EXCEPT ![agent_id] = last'.id]
        /\ claimLog' = IF last'.result = "none" THEN claimLog
                       ELSE [claimLog EXCEPT ![last'.id] = Append(@, agent_id)]
        /\ UNCHANGED <<archive, locks, now, snap, holders, auxVars>>

WorkerComplete ==
    \E agent_id \in Agents :
        /\ pc[agent_id] = "complete"
        /\ CompleteTaskBy(cur[agent_id], agent_id)
        /\ pc' = [pc EXCEPT ![agent_id] = "claim"]
        /\ UNCHANGED <<archive, locks, now, cur, snap, holders, claimLog, auxVars>>

NextWorkers ==
    \/ WorkerClaim
    \/ WorkerComplete

SpecWorkers == InitWorkers /\ [][NextWorkers]_vars

\* the step of one agent's thread
WorkerStep(agent_id) == NextWorkers /\ pc'[agent_id] # pc[agent_id]

\* the same agents, every thread that can take a step getting to take it
SpecWorkersFair == SpecWorkers /\ \A agent_id \in Agents : WF_vars(WorkerStep(agent_id))

\* the task is one claim_task chooses from: it is listed among the open tasks
Claimable(dir, id) ==
    \E order \in Orders(DOMAIN dir) :
        \E i \in 1..Len(OpenTasks(dir, order)) : OpenTasks(dir, order)[i].id = id

\* ------------------------------------------- claims on locks and the protocol
\* C1: whatever the interleaving of the acquire_lock calls of different agents
\* on one task id, acquire_lock returns True to at most one of them until
\* release_lock or cleanup_stale removes the lock.
C1_AcquireMutualExclusion ==
    \A id \in TaskIds : Cardinality(holders[id]) <= 1

\* C2: under the claim-then-lock protocol every claimed (so every granted) task
\* was read as open, and no task id is granted (acquire_lock returned True after
\* the claim) to two agents within one lock epoch.
C2_ClaimThenLockExclusive ==
    /\ \A a \in Agents : pc[a] = "claim_write" => snap[a].status = "open"
    /\ \A id \in TaskIds : \A a, b \in holders[id] :
          (pc[a] = "working" /\ cur[a] = id /\ pc[b] = "working" /\ cur[b] = id) => a = b

\* C3: with workers looping claim_task / complete_task, every call atomic, no
\* task id is returned by claim_task more than once, to the same or another agent.
C3_NoDuplicateClaims ==
    \A id \in TaskIds : Len(claimLog[id]) <= 1

C3_Witness ==
    /\ \A a \in Agents : pc[a] = "exit"
    /\ \A id \in TaskIds : Len(claimLog[id]) = 1
    /\ \E id1, id2 \in TaskIds : claimLog[id1] # claimLog[id2]
    /\ \A id \in DOMAIN tasks : tasks[id].status = "done"

\* C5: when cleanup_stale reaps the lock of a task whose owner claimed it,
\* acquired the lock and crashed without writing a final status, the task is
\* re-claimable from then on: claim_task chooses among tasks that include it.
C5_ReapedTaskReclaimable ==
    [][ \A id \in DOMAIN locks : \A a \in Agents :
          ( /\ last'.op = "cleanup_stale" /\ id \in last'.cleaned
            /\ locks[id].agent_id = a
            /\ pc[a] = "crashed" /\ cur[a] = id
            /\ id \in DOMAIN tasks
            /\ tasks[id].status = "locked" /\ tasks[id].locked_by = a )
          => Claimable(tasks', id) ]_vars

\* C10: a lock file for task id x exists only if task x has status locked and
\* its locked_by is the lock's agent_id.
C10_LockImpliesTaskLockedBySameAgent ==
    \A id \in DOMAIN locks :
        /\ id \in DOMAIN tasks
        /\ tasks[id].status = "locked"
        /\ tasks[id].locked_by = locks[id].agent_id

\* ------------------------------------------------------ claims on the board
\* C4: per open->locked transition of a task at most one complete_task or
\* fail_task call succeeds, and once one has succeeded every further complete
\* or fail on that task, by any agent, is rejected with not-owner until the
\* task is claimed again.
C4_AtMostOnceCompletion ==
    [][ /\ \A id \in TaskIds : completions'[id] <= 1
        /\ \A id \in DOMAIN tasks :
              (completions[id] >= 1 /\ last'.op \in {"complete", "fail"} /\ last'.id = id)
                  => last'.result = "not-owner" ]_vars

C4_Witness ==
    /\ last.op = "complete" /\ last.result = "not-owner"
    /\ last.id \in DOMAIN tasks
    /\ tasks[last.id].status = "done"
    /\ tasks[last.id].locked_by = last.agent
    /\ completions[last.id] = 1

\* C6: claim_task returns none exactly when no task is open and then leaves the
\* board unchanged; otherwise the task it returns was open and had a priority
\* at least that of every open task.
C6_ClaimPicksMaxPriorityOpen ==
    [][ last'.op = "claim" =>
          /\ (last'.result = "none") <=> (\A id \in DOMAIN tasks : tasks[id].status # "open")
          /\ last'.result = "none" => tasks' = tasks
          /\ last'.result # "none" =>
                /\ last'.id \in DOMAIN tasks
                /\ tasks[last'.id].status = "open"
                /\ \A o \in DOMAIN tasks :
                      tasks[o].status = "open" => tasks[last'.id].priority >= tasks[o].priority
                /\ tasks'[last'.id].status = "locked" ]_vars

C6_Witness ==
    /\ last.op = "claim" /\ last.result = "ok"
    /\ \E o \in DOMAIN tasks :
          tasks[o].status = "open" /\ tasks[o].priority < tasks[last.id].priority

\* C7: among the open tasks of maximal priority claim_task returns the one with
\* the smallest id, whatever the order the directory is enumerated in.
C7_TieBreakBySmallestId ==
    [][ (last'.op = "claim" /\ last'.result = "ok") =>
          \A o \in DOMAIN tasks :
              (tasks[o].status = "open" /\ tasks[o].priority = tasks[last'.id].priority)
                  => IdRank(last'.id) <= IdRank(o) ]_vars

\* C8: complete_task / fail_task by agent a on an existing task fail with
\* not-owner, leaving the board unchanged, whenever the task is not locked or
\* not locked by a; otherwise they set status done (failed, with the reason)
\* and completed_at, and nothing else.
C8_CompleteFailOwnership ==
    [][ \A id \in DOMAIN tasks :
          (last'.op \in {"complete", "fail"} /\ last'.id = id) =>
              IF tasks[id].status # "locked" \/ tasks[id].locked_by # last'.agent
              THEN last'.result = "not-owner" /\ tasks' = tasks
              ELSE /\ last'.result = "ok"
                   /\ DOMAIN tasks' = DOMAIN tasks
                   /\ \A o \in DOMAIN tasks : o # id => tasks'[o] = tasks[o]
                   /\ tasks'[id].completed_at = now /\ now # NoTime
                   /\ last'.op = "complete" =>
                         tasks'[id] = [tasks[id] EXCEPT !.status = "done", !.completed_at = now]
                   /\ last'.op = "fail" =>
                         /\ last'.reason \in Reasons
                         /\ tasks'[id] = [tasks[id] EXCEPT !.status = "failed",
                                              !.completed_at = now, !.reason = last'.reason] ]_vars

C8_Witness ==
    /\ last.op = "fail" /\ last.result = "not-owner"
    /\ last.id \in DOMAIN tasks
    /\ tasks[last.id].status = "locked"
    /\ tasks[last.id].locked_by # last.agent

\* C9 as stated: a task has status locked if and only if its locked_by is present.
C9_LockedIffLockedBy ==
    \A id \in DOMAIN tasks : (tasks[id].status = "locked") <=> (tasks[id].locked_by # NoAgent)

\* C9 amended: a locked task has its locked_by present, and locked_by is absent
\* exactly on the open tasks (done and failed tasks keep the agent that locked them).
C9_LockedByAbsentIffOpen ==
    \A id \in DOMAIN tasks :
        /\ tasks[id].status = "locked" => tasks[id].locked_by \in Agents
        /\ (tasks[id].locked_by = NoAgent) <=> (tasks[id].status = "open")

C9_Witness ==
    \E id \in DOMAIN tasks : tasks[id].status = "done" /\ tasks[id].locked_by \in Agents

\* ------------------------------------------------- claims on the lock calls
\* C11: cleanup_stale(M) removes exactly the locks whose last_heartbeat was
\* more than M seconds old when it was called, returns exactly their task ids,
\* and leaves every other lock in place and unchanged.
C11_CleanupStaleExact ==
    [][ last'.op = "cleanup_stale" =>
          LET old == {id \in DOMAIN locks :
                        (now - locks[id].last_heartbeat) * TickSeconds > last'.arg} IN
          /\ DOMAIN locks' = (DOMAIN locks) \ old
          /\ last'.cleaned = old
          /\ \A id \in DOMAIN locks' : locks'[id] = locks[id] ]_vars

\* a cleanup that reaped nothing although a lock was exactly M seconds old
C11_Witness ==
    /\ last.op = "cleanup_stale" /\ last.cleaned = {}
    /\ \E id \in DOMAIN locks : (now - locks[id].last_heartbeat) * TickSeconds = last.arg
    /\ last.arg > 0

\* C12: cleanup_stale, running step by step beside refresh_lock, never unlinks
\* a lock whose last_heartbeat is within max_age_seconds at the moment of the
\* unlink (so a lock kept refreshed is never reaped, whatever its acquired_at).
C12_HeartbeatPreservesLock ==
    [][ (last'.op = "cleanup_unlink" /\ last'.id \in DOMAIN locks) =>
          (now - locks[last'.id].last_heartbeat) * TickSeconds > last'.arg ]_vars

\* C13: release_lock(t, a) deletes the lock of t and returns true exactly when
\* the lock exists and its agent_id is a; when the lock is absent or owned by
\* another agent it returns false and the lock store is unchanged.
C13_ReleaseOnlyByOwner ==
    [][ last'.op = "release" =>
          IF last'.id \in DOMAIN locks /\ locks[last'.id].agent_id = last'.agent
          THEN /\ last'.result = "true"
               /\ DOMAIN locks' = (DOMAIN locks) \ {last'.id}
               /\ \A o \in DOMAIN locks' : locks'[o] = locks[o]
          ELSE /\ last'.result = "false"
               /\ locks' = locks ]_vars

\* a release refused because the lock belongs to another agent
C13_Witness ==
    /\ last.op = "release" /\ last.result = "false"
    /\ last.id \in DOMAIN locks
    /\ locks[last.id].agent_id \in Agents \ {last.agent}

\* C14: refresh_lock(t, a) sets last_heartbeat to now and returns true exactly
\* when the lock of t exists and is owned by a, leaving agent_id, task_id and
\* acquired_at as they were; otherwise it returns false and changes nothing.
C14_RefreshOnlyByOwner ==
    [][ last'.op = "refresh" =>
          IF last'.id \in DOMAIN locks /\ locks[last'.id].agent_id = last'.agent
          THEN /\ last'.result = "true"
               /\ DOMAIN locks' = DOMAIN locks
               /\ \A o \in DOMAIN locks : o # last'.id => locks'[o] = locks[o]
               /\ locks'[last'.id].last_heartbeat = now
               /\ locks'[last'.id].agent_id = locks[last'.id].agent_id
               /\ locks'[last'.id].task_id = locks[last'.id].task_id
               /\ locks'[last'.id].acquired_at = locks[last'.id].acquired_at
          ELSE /\ last'.result = "false"
               /\ locks' = locks ]_vars

\* a refresh that moved last_heartbeat past acquired_at
C14_Witness ==
    /\ last.op = "refresh" /\ last.result = "true"
    /\ last.id \in DOMAIN locks
    /\ locks[last.id].agent_id = last.agent
    /\ locks[last.id].last_heartbeat = now
    /\ locks[last.id].acquired_at < now

\* ----------------------------------------- claims on the dashboard's actions
\* C15: after the delete action on task id x neither a task record nor a lock
\* of x exists, whatever the state before; every other task record, lock and
\* archived record is left as it was (so deleting an absent task changes no
\* other record).
C15_DeleteRemovesTaskAndLock ==
    [][ last'.op = "delete" =>
          /\ last'.id \notin DOMAIN tasks'
          /\ last'.id \notin DOMAIN locks'
          /\ DOMAIN tasks' = (DOMAIN tasks) \ {last'.id}
          /\ DOMAIN locks' = (DOMAIN locks) \ {last'.id}
          /\ \A o \in DOMAIN tasks' : tasks'[o] = tasks[o]
          /\ \A o \in DOMAIN locks' : locks'[o] = locks[o]
          /\ archive' = archive /\ messages' = messages
          /\ last'.id \notin DOMAIN tasks => tasks' = tasks ]_vars

\* a delete that unlinked both the task record and its lock and left another
\* task with its lock in place
C15_Witness ==
    /\ last.op = "delete" /\ last.cleaned = {"task", "lock"}
    /\ \E o \in DOMAIN tasks : o \in DOMAIN locks /\ tasks[o].status = "locked"

\* C16: reopen takes a task from any status to open with locked_by and
\* heartbeat cleared, and a second reopen of the same task changes nothing.
C16_ReopenIdempotent ==
    [][ (last'.op = "reopen" /\ last'.id \in DOMAIN tasks) =>
          /\ last'.id \in DOMAIN tasks'
          /\ tasks'[last'.id].status = "open"
          /\ tasks'[last'.id].locked_by = NoAgent
          /\ tasks'[last'.id].heartbeat = NoTime
          /\ Reopened(tasks'[last'.id]) = tasks'[last'.id]
          /\ (last.op = "reopen" /\ last.id = last'.id) => tasks' = tasks ]_vars

\* a failed task reopened
C16_Witness ==
    /\ last.op = "reopen" /\ last.id \in DOMAIN tasks
    /\ tasks[last.id].status = "open"
    /\ tasks[last.id].reason \in Reasons

\* C17: after the reopen action or the delete action on task id x no lock of x
\* exists, whether or not a task record of x existed.
C17_ReopenDeleteRemoveLock ==
    [][ last'.op \in {"reopen", "delete"} => last'.id \notin DOMAIN locks' ]_vars

\* ---------------------------------------------------- claims on the messages
\* how many of the messages a get_messages call returned have the id given
Returned(ret, id) == Cardinality({i \in 1..Len(ret) : ret[i].id = id})

\* C18: a posted message is stored with its role and text and read=false;
\* get_messages(R, unread_only=false) returns it exactly once when R is its
\* addressee and never otherwise; read stays false until mark_read on it, and
\* from then on unread_only=true leaves it out while unread_only=false still
\* returns it.
C18_MessageRoundTrip ==
    [][ /\ last'.op = "post" =>
              /\ last'.id \notin DOMAIN messages
              /\ DOMAIN messages' = DOMAIN messages \cup {last'.id}
              /\ messages'[last'.id].to = last'.to
              /\ messages'[last'.id].text = last'.text
              /\ messages'[last'.id].read = FALSE
        /\ last'.op = "get_messages" =>
              /\ messages' = messages
              /\ \A i \in 1..Len(last'.ret) :
                    last'.ret[i].id \in DOMAIN messages /\ last'.ret[i] = messages[last'.ret[i].id]
              /\ \A id \in DOMAIN messages :
                    Returned(last'.ret, id) =
                        IF messages[id].to = last'.to /\ (messages[id].read => ~last'.unread_only)
                        THEN 1 ELSE 0
        /\ \A id \in DOMAIN messages :
              /\ id \in DOMAIN messages'
              /\ messages'[id].to = messages[id].to
              /\ messages'[id].text = messages[id].text
              /\ messages'[id].read =
                    IF last'.op = "mark_read" /\ last'.id = id THEN TRUE ELSE messages[id].read ]_vars

\* an unread-only query that left out a message marked read and returned an
\* unread one addressed to the same role
C18_Witness ==
    /\ last.op = "get_messages" /\ last.unread_only
    /\ Len(last.ret) = 1
    /\ \E id \in DOMAIN messages :
          messages[id].to = last.to /\ messages[id].read /\ Returned(last.ret, id) = 0

C21_FleetTableSerialized ==
    [][ /\ \A h1, h2 \in Handlers :
              (sup'.pc[h1] # "idle" /\ sup'.pc[h2] # "idle") => h1 = h2
        /\ \A h \in Handlers : sup'.pc[h] # "idle" => sup'.lock = h
        /\ fleet' # fleet =>
              /\ sup.lock \in Handlers
              /\ sup.pc[sup.lock] = "in"
              /\ last'.id = sup.lock
        /\ \A h \in Handlers :
              (sup.pc[h] # "idle" /\ last'.id # h) => (fleet' = fleet /\ sup'.pc[h] = sup.pc[h]) ]_vars

\* a health check halfway through the table, every other handler outside
C21_Witness ==
    /\ sup.pc["health_check"] = "in"
    /\ last.op = "step"
    /\ Cardinality(sup.todo["health_check"]) = 1
    /\ Cardinality(DOMAIN fleet) = 2
    /\ \E a \in DOMAIN fleet \ sup.todo["health_check"] : fleet[a].status = "restarting"

C23_ReconstructionExact ==
    [][ last'.op = "reconstruct" =>
        LET mine == {x \in last'.arg : x.name[1] = "claude-agent-"}
            Stripped(id) == SubSeq(Spelling(id), 1, Len(Spelling(id)) - 2)
        IN  /\ DOMAIN fleet' = {x.name[2] : x \in mine}
            /\ \A x \in mine :
                 LET id == x.name[2]
                 IN  /\ fleet'[id].status = "running"
                     /\ fleet'[id].started_at = NoTime
                     /\ fleet'[id].restart_count = 0
                     /\ fleet'[id].container_id = x.container_id
                     /\ Spelling(id)[Len(Spelling(id))] \in Digits
                     /\ Spelling(id)[Len(Spelling(id)) - 1] = "-"
                     /\ fleet'[id].role = SplitFrom(Stripped(id), 1, <<>>) ]_vars

C23_Witness ==
    /\ last.op = "reconstruct"
    /\ Cardinality(last.arg) = 2
    /\ \E x \in last.arg : x.name[1] # "claude-agent-"
    /\ DOMAIN fleet = {"code-review-0"}
    /\ Len(fleet["code-review-0"].role) = 2
    /\ fleet["code-review-0"].container_id = "c2"

C26_ArchiveExact ==
    [][ /\ last'.op = "archive" =>
            LET old == {id \in DOMAIN tasks :
                           /\ tasks[id].status \in {"done", "failed"}
                           /\ tasks[id].completed_at # NoTime
                           /\ (now - tasks[id].completed_at) * 8 > last'.arg}
            IN  /\ DOMAIN tasks' = DOMAIN tasks \ old
                /\ \A id \in DOMAIN tasks' : tasks'[id] = tasks[id]
                /\ \A id \in old : id \in DOMAIN archive' /\ archive'[id] = tasks[id]
                /\ \A id \in DOMAIN archive : id \in DOMAIN archive'
                /\ DOMAIN archive' \subseteq DOMAIN archive \cup old
                /\ \A order \in Orders(DOMAIN tasks') :
                   \A status_filter \in {"None", "open", "locked", "done", "failed"} :
                      LET listed == ListTasks(tasks', order, status_filter)
                      IN  \A i \in 1..Len(listed) : listed[i].id \notin old
        /\ (last'.op = "claim" /\ last'.result = "ok") => last'.id \in DOMAIN tasks ]_vars

C26_Witness ==
    /\ last.op = "archive"
    /\ last.arg = 7
    /\ Cardinality(last.cleaned) = 1
    /\ \E id \in last.cleaned : id \in DOMAIN archive /\ id \notin DOMAIN tasks
    /\ \E id \in DOMAIN tasks : tasks[id].status = "done" /\ tasks[id].completed_at = now

\* C27: in every fleet table reachable through reconstruction, start-fleet,
\* stop-fleet, stop agent, restart agent and health ticks, every entry's status
\* is one of running, healthy, stopped, restarting, crashed, no-container.
C27_StatusDomain ==
    \A a \in DOMAIN fleet :
        fleet[a].status \in {"running", "healthy", "stopped", "restarting", "crashed", "no-container"}

\* C27, as the handlers have it: the status is one of running, failed, healthy,
\* stopped, restarting, crashed; failed is what a start or a restart that the
\* runtime refused leaves, and no-container is never written.
C27_StatusDomainWithFailed ==
    \A a \in DOMAIN fleet :
        fleet[a].status \in {"running", "failed", "healthy", "stopped", "restarting", "crashed"}

C27_Witness ==
    /\ last.op = "fleet_start"
    /\ \E a \in DOMAIN last.outcome : last.outcome[a] = "" /\ fleet[a].status = "failed"
    /\ \E a \in DOMAIN fleet : fleet[a].status = "crashed"

\* C28: with a fixed set of open tasks and agents that each loop claim_task
\* then complete_task, every call atomic and every agent scheduled fairly,
\* there comes a point from which every task is done, every agent has left
\* its loop, and the claim that was made last returned none.
C28_FleetDrainsBoard ==
    <>[]( /\ \A id \in DOMAIN tasks : tasks[id].status = "done"
          /\ \A agent_id \in Agents : pc[agent_id] = "exit"
          /\ last.op = "claim" /\ last.result = "none" )

C28_Witness ==
    /\ DOMAIN tasks = TaskIds
    /\ \A id \in DOMAIN tasks : tasks[id].status = "done"
    /\ \A agent_id \in Agents : pc[agent_id] = "exit"
    /\ \A agent_id \in Agents : \E id \in DOMAIN tasks : tasks[id].locked_by = agent_id
    /\ last.op = "claim" /\ last.result = "none"

\* C29: in every board state a task whose status is done or failed has its
\* completed_at present, and an open task has it absent (one that was never
\* completed, and also one that was completed and reopened).
C29_CompletedAtFollowsStatus ==
    \A id \in DOMAIN tasks :
        /\ tasks[id].status \in {"done", "failed"} => tasks[id].completed_at # NoTime
        /\ tasks[id].status = "open" => tasks[id].completed_at = NoTime

C29_Witness ==
    /\ last.op = "fail" /\ last.result = "ok"
    /\ tasks[last.id].status = "failed"
    /\ tasks[last.id].completed_at = now
    /\ now = 1
    /\ \E id \in DOMAIN tasks : tasks[id].status = "open" /\ tasks[id].completed_at = NoTime

\* C30: in every board state reachable through add, claim, complete, fail and
\* reopen, a task record carries a reason only when its status is failed.
C30_ReasonOnlyWhenFailed ==
    \A id \in DOMAIN tasks : tasks[id].reason # NoReason => tasks[id].status = "failed"

C34_FailedStartIsRetried ==
    [][ /\ last'.op = "fleet_start" =>
            \A a \in DOMAIN last'.outcome :
                last'.outcome[a] = NoContainer => (a \in DOMAIN fleet' /\ fleet'[a].status = "failed")
        /\ last'.op = "health" =>
            \A a \in DOMAIN fleet :
                (fleet[a].status = "failed" /\ fleet[a].container_id = NoContainer
                    /\ fleet[a].restart_count < 3) =>
                (fleet'[a].restart_count = fleet[a].restart_count + 1 /\ last'.outcome # <<>>) ]_vars

\* what the ticks do with such an entry instead: nothing at all
FailedStartNeverRetried ==
    [][ last'.op = "health" =>
            \A a \in DOMAIN fleet : fleet[a].container_id = NoContainer => fleet'[a] = fleet[a] ]_vars

\* ------------------------------------------------- claims on the log stream
\* the positions in what the stream sent that hold an item of this kind
SentOf(kind) == {i \in 1..Len(stream.sent) : stream.sent[i].kind = kind}

\* forwarded lines keep the runtime's order, and no dropped line is ever sent
OrderKeptNoReplay ==
    /\ \A i, j \in SentOf("line") : i < j => stream.sent[i].line < stream.sent[j].line
    /\ \A i \in SentOf("line") : stream.sent[i].line \notin stream.dropped

\* C31: within any one second the stream forwards at most the limit of log
\* lines and at most one throttling notice; the lines beyond the limit are
\* dropped and never sent later, and forwarded lines keep the runtime's order.
C31_RateLimitAnySecond ==
    /\ \A w \in 0..MaxClock :
         /\ Cardinality({i \in SentOf("line") :
                            stream.sent[i].at >= w /\ stream.sent[i].at < w + TicksPerSecond}) <= LineLimit
         /\ Cardinality({i \in SentOf("notice") :
                            stream.sent[i].at >= w /\ stream.sent[i].at < w + TicksPerSecond}) <= 1
    /\ OrderKeptNoReplay

\* C32: once the handler has spawned the log-following child, however the
\* handler ends (end of the stream, the client gone, the read timing out) the
\* child is not left running: the handler killed it and waited for it, unless
\* it had ended by itself and its return code was already collected.
C32_NoChildOutlivesHandler ==
    stream.pc = "done" =>
        /\ stream.proc # "running"
        /\ stream.ended_by \in {"disconnect", "timeout"} => stream.proc = "reaped"
        /\ stream.ended_by = "eof" => stream.proc \in {"reaped", "exited"}

C32_Witness ==
    /\ stream.pc = "done"
    /\ stream.ended_by = "disconnect"
    /\ stream.proc = "reaped"
    /\ Len(stream.sent) > 0

\* ------------------------------------------------ claims on the agent cards
CardPos(agent_id) == CHOOSE i \in 1..Len(CardOrder) : CardOrder[i] = agent_id

\* the tasks an agent holds a lock on, and the one listed last
HeldBy(agent_id) == {id \in DOMAIN locks : locks[id].agent_id = agent_id}
LastHeldBy(agent_id) ==
    CHOOSE id \in HeldBy(agent_id) : \A other \in HeldBy(agent_id) : IdRank(other) <= IdRank(id)

HeartbeatFresh(id) == (now - locks[id].last_heartbeat) * TickSeconds < 600

\* what both readings of the card list share: one card per fleet entry, one
\* flagged card per agent that only holds locks, no agent twice, sorted
CardsCover(cards) ==
    /\ {cards[i].agent_id : i \in DOMAIN cards}
         = DOMAIN fleet \cup {locks[id].agent_id : id \in DOMAIN locks}
    /\ \A i, j \in DOMAIN cards : i < j => CardPos(cards[i].agent_id) < CardPos(cards[j].agent_id)
    /\ \A i \in DOMAIN cards :
         IF cards[i].agent_id \in DOMAIN fleet
         THEN /\ ~cards[i].orphaned_lock
              /\ cards[i].status = fleet[cards[i].agent_id].status
              /\ cards[i].container_id = fleet[cards[i].agent_id].container_id
              /\ cards[i].role = fleet[cards[i].agent_id].role
         ELSE /\ cards[i].orphaned_lock
              /\ cards[i].status = "no container"

\* C35 as stated: every lock's task id is on its agent's card, and a card is
\* fresh exactly when its lock's heartbeat is less than ten minutes old
C35_CardsAsStated ==
    last.op = "agent_cards" =>
        /\ CardsCover(last.result)
        /\ \A id \in DOMAIN locks : \E i \in DOMAIN last.result :
               /\ last.result[i].agent_id = locks[id].agent_id
               /\ last.result[i].task_id = id
        /\ \A i \in DOMAIN last.result : \A id \in HeldBy(last.result[i].agent_id) :
               last.result[i].fresh <=> HeartbeatFresh(id)

\* C35, amended: the card list has one card per fleet entry and one flagged
\* card with status 'no container' per agent that holds locks without a fleet
\* entry, no agent twice, sorted by agent id; a card carries the task id of the
\* last listed lock of its agent; a fleet card without a lock is fresh iff its
\* status is running; a card whose agent has a fleet entry or several locks is
\* fresh iff the heartbeat of the last listed lock is under ten minutes old; a
\* flagged card made from a single lock is never fresh
C35_CardsAsAssembled ==
    last.op = "agent_cards" =>
        /\ CardsCover(last.result)
        /\ \A i \in DOMAIN last.result :
             LET card == last.result[i]
                 held == HeldBy(card.agent_id)
             IN  IF held = {}
                 THEN card.task_id = NoId /\ (card.fresh <=> card.status = "running")
                 ELSE /\ card.task_id = LastHeldBy(card.agent_id)
                      /\ IF card.orphaned_lock /\ Cardinality(held) = 1
                         THEN ~card.fresh
                         ELSE card.fresh <=> HeartbeatFresh(LastHeldBy(card.agent_id))

\* a flagged card from one lock with a fresh heartbeat, next to a fleet card
C35_Witness ==
    /\ last.op = "agent_cards"
    /\ \E i, j \in DOMAIN last.result :
         /\ last.result[i].orphaned_lock
         /\ Cardinality(HeldBy(last.result[i].agent_id)) = 1
         /\ HeartbeatFresh(LastHeldBy(last.result[i].agent_id))
         /\ ~last.result[j].orphaned_lock
         /\ last.result[j].task_id # NoId

\* ------------------------------------------------- claims on single records
RecordOps == {"claim", "complete", "fail", "reopen", "delete", "acquire", "release", "refresh"}

SameRecord(dir, after, id) ==
    /\ id \in DOMAIN dir <=> id \in DOMAIN after
    /\ id \in DOMAIN dir => after[id] = dir[id]

C37_RefreshNeverCreatesOrSteals ==
    [][last'.op = "refresh" =>
          /\ \A id \in DOMAIN locks' :
                 id \in DOMAIN locks /\ locks'[id].agent_id = locks[id].agent_id
          /\ last'.result = "true" => OwnedBy(locks, last'.id, last'.agent)]_vars

\* the part on creation alone
C37_RefreshNeverCreates ==
    [][last'.op = "refresh" => DOMAIN locks' \subseteq DOMAIN locks]_vars

\* the part on ownership alone
C37_RefreshNeverSteals ==
    [][last'.op = "refresh" =>
          \A id \in DOMAIN locks' \cap DOMAIN locks : locks'[id].agent_id = locks[id].agent_id]_vars

\* a refresh that begins when the caller's lock is gone returns false
C37_RefreshAfterReapFails ==
    [][last'.op = "refresh" /\ pc = pc' /\ ~OwnedBy(locks, last'.id, last'.agent) =>
          last'.result = "false" /\ locks' = locks]_vars

Replacing == {"fleet_start", "fleet_stop", "reconstruct"}

\* C39: while an entry stays in the table without being replaced, its
\* restart_count never goes down, a tick that finds it healthy leaves the
\* count alone, an operator restart adds one to it, and once it is 3 or more
\* a health tick calls restart_agent for it no more
C39_RestartBudgetShared ==
    [][last'.op \notin Replacing =>
          \A a \in DOMAIN fleet :
              /\ a \in DOMAIN fleet'
              /\ fleet'[a].restart_count >= fleet[a].restart_count
              /\ (last'.op = "agent_restart" /\ last'.id = a /\ last'.result \in {"running", "failed"})
                    => fleet'[a].restart_count = fleet[a].restart_count + 1
              /\ (last'.op = "health" /\ fleet[a].container_id \in last'.running)
                    => fleet'[a].restart_count = fleet[a].restart_count
              /\ (last'.op = "health" /\ fleet[a].restart_count >= 3)
                    => /\ fleet[a].container_id \notin DOMAIN last'.outcome
                       /\ fleet'[a].restart_count = fleet[a].restart_count]_vars

\* a tick that let an entry be whose budget operator restarts had used up
\* beyond what the health check alone spends
C39_Witness ==
    /\ last.op = "health"
    /\ last.result = "ok"
    /\ \E a \in DOMAIN fleet :
          /\ fleet[a].restart_count > 3
          /\ fleet[a].container_id # NoContainer
          /\ fleet[a].container_id \notin last.running
          /\ fleet[a].container_id \notin DOMAIN last.outcome
          /\ fleet[a].status = "crashed"

\* ------------------------------------------------ claims on the fleet summary
Live(fl) == {a \in DOMAIN fl : fl[a].status \in {"running", "healthy"}}

\* C40: whenever an entry has a live container (status running or healthy)
\* the fleet controls report fleet_status running and a fleet_count equal to
\* the number of such entries, and they report stopped only when there is none
C40_SummaryMatchesLiveness ==
    last.op = "fleet_context" =>
        /\ Live(fleet) # {} =>
              /\ last.result.fleet_status = "running"
              /\ last.result.fleet_count = Cardinality(Live(fleet))
        /\ last.result.fleet_status = "stopped" => Live(fleet) = {}

\* what the controls do report: the entries whose status is running, and no others
C40_SummaryCountsRunningOnly ==
    last.op = "fleet_context" =>
        /\ last.result.fleet_count = Cardinality({a \in DOMAIN fleet : fleet[a].status = "running"})
        /\ last.result.fleet_status = "running" <=> last.result.fleet_count > 0
====
